---- MODULE Spec2Model ----
(***************************************************************************)
(* The revision manager of firewood (firewood/src/manager.rs): the deque   *)
(* of committed revisions, the list of live proposals, the by-hash index   *)
(* and the commit sequence, with the reference counts of the shared        *)
(* revisions and the root recorded in the file header.                     *)
(***************************************************************************)
EXTENDS Integers, Sequences, FiniteSets, TLC

\* ------------------------------------------------------------------ bounds
\* Number of distinct root hashes (TrieHash values) in the model.
NumHashes == 3
\* Largest max_revisions a configuration may choose (0..MaxRevisionsCfg).
MaxRevisionsCfg == 2
\* Number of proposals that may be created over the life of the file.
MaxIds == 3
\* Number of references to committed revisions readers may hold at a time.
MaxHolders == 1
\* Number of "still referenced" warnings one commit may log.
MaxWarnings == 2
\* Number of proposals the manager may list at a time.
MaxProposals == 2
\* Number of revisions that may become the tip over the life of the file.
MaxChain == 4
\* Number of times the process may be killed and the file reopened.
MaxCrashes == 1
\* Largest number of occupied slots of a branch node drawn as input.
MaxOccupied == 2
\* Number of distinct child addresses (LinearAddress values).
NumAddrs == 2
\* Largest nibble of a partial path and largest byte of a value.
MaxByte == 1
\* Longest partial path and longest value.
MaxBytesLen == 1

\* ------------------------------------------------------------- data model
\* Option::None of Option<TrieHash>.
None == 0
Hashes == 1..NumHashes
OptHashes == {None} \cup Hashes

\* The root a file header records: root address (the identity of the
\* proposal that wrote it, 0 for the root the file started with) and hash.
DiskRoot(id, hash) == [id |-> id, hash |-> hash]

\* A committed revision (one Arc<NodeStore<Committed, FileBacked>>): its
\* root, its optional root hash, and n, the identity of the Arc.
Rev(id, hash, n) == [id |-> id, hash |-> hash, n |-> n]

\* NodeStoreParent: the hash of a committed revision, or a live proposal
\* (named by its identity) with that proposal's root hash. For a committed
\* parent, id remembers which revision the hash was taken from (history
\* only: the program keeps the hash alone).
CommittedParent(r) == [kind |-> "Committed", id |-> r.n, hash |-> r.hash]
ProposedParent(q) == [kind |-> "Proposed", id |-> q.id, hash |-> q.hash]

\* An immutable proposal (one Arc<NodeStore<Arc<ImmutableProposal>, FileBacked>>).
Proposal(id, hash, parent) == [id |-> id, hash |-> hash, parent |-> parent]

VARIABLES
    max_revisions, \* RevisionManager.max_revisions
    historical,    \* RevisionManager.historical, oldest first
    proposals,     \* RevisionManager.proposals, in the order they were pushed
    by_hash,       \* RevisionManager.by_hash: root hash -> committed revision
    holders,       \* strong references readers hold, per committed revision
    pc,            \* position of the commit in progress ("idle" when none)
    frame,         \* locals of the commit in progress: proposal, current_revision
    ret,           \* what the last call returned
    warnings,      \* number of warnings logged by the commit in progress
    disk_root,     \* root address and hash recorded in the file header
    next_id,       \* identity of the next proposal
    crashes,       \* number of kills so far
    chain,         \* history: the revisions that became the tip, in order
    opened_at,     \* history: index in chain of the revision the file was opened at
    crashed_at,    \* history: where the last kill hit the commit sequence
    io_failed,     \* history: a commit returned an I/O error since the file was opened
    branch,        \* the BranchNode handed to serialize
    stream,        \* the fields the serializer has been given, in order
    node_pc,       \* position of the serialize / deserialize call
    decoded        \* what deserialize returned

\* The state of the revision manager, and the state of the node encoding.
managerVars == <<max_revisions, historical, proposals, by_hash, holders, pc, frame, ret,
                 warnings, disk_root, next_id, crashes, chain, opened_at,
                 crashed_at, io_failed>>
nodeVars == <<branch, stream, node_pc, decoded>>

vars == <<managerVars, nodeVars>>

Arcs == 1..MaxChain

NoProposal == Proposal(0, None, CommittedParent(Rev(0, None, 0)))
\* flushed is history: the durable writes the commit has completed, in order.
NoFrame == [active |-> FALSE, p |-> NoProposal, cur |-> 0, flushed |-> <<>>]
Ret(op, res, arg, val) == [op |-> op, res |-> res, arg |-> arg, val |-> val]
NoRet == Ret("none", "none", None, <<>>)

\* ---------------------------------------------------------------- helpers
Last(s) == s[Len(s)]

\* filter_map(|r| r.kind.root_hash()) over a sequence of revisions or proposals
RECURSIVE RootHashes(_)
RootHashes(s) ==
    IF s = <<>> THEN <<>>
    ELSE IF Head(s).hash = None THEN RootHashes(Tail(s))
         ELSE <<Head(s).hash>> \o RootHashes(Tail(s))

\* HashMap::remove / HashMap::insert / HashMap::get on by_hash
MapRemove(m, h) == [k \in DOMAIN m \ {h} |-> m[k]]
MapInsert(m, h, r) == [k \in DOMAIN m \cup {h} |-> IF k = h THEN r ELSE m[k]]
HasKey(m, h) == h \in DOMAIN m
EmptyMap == [k \in {} |-> 0]

\* Whether the deque holds the revision r.
InDeque(r) == \E i \in 1..Len(historical) : historical[i] = r

\* RevisionManager::current_revision: historical.back()
current_revision == Last(historical)

\* ImmutableProposal::parent_hash_is: equality on the stored parent hash
parent_hash_is(p, h) == p.parent.hash = h

\* NodeStore::as_committed: the committed view of a proposal, a new Arc
as_committed(p, n) == Rev(p.id, p.hash, n)

\* NodeStore::commit_reparent: a proposal whose parent is the committed
\* proposal p now names the committed revision by its hash
commit_reparent(p, committed, other) ==
    IF other.parent.kind = "Proposed" /\ other.parent.id = p.id
    THEN [other EXCEPT !.parent = CommittedParent(committed)]
    ELSE other

\* NodeStore::flush_header: the header names the proposal's root
flush_header(p) == DiskRoot(p.id, p.hash)

\* ------------------------------------------------------------ branch nodes
\* BranchNode::MAX_CHILDREN
MAX_CHILDREN == 16
Slots == 0..(MAX_CHILDREN - 1)
Addrs == 1..NumAddrs
Bytes == 0..MaxByte
\* Path and Box<[u8]> values: byte strings.
ByteStrings == UNION {[1..n -> Bytes] : n \in 0..MaxBytesLen}
\* Option<Box<[u8]>>: <<>> is None, <<v>> is Some(v).
OptValues == {<<>>} \cup {<<v>> : v \in ByteStrings}

\* Option<Child>: None, Some(Child::Node(_)), Some(Child::AddressWithHash(..))
NoChild == [kind |-> "None"]
ChildNode == [kind |-> "Node"]
AddressWithHash(addr, hash) ==
    [kind |-> "AddressWithHash", addr |-> addr, hash |-> hash]
Children == {ChildNode} \cup {AddressWithHash(a, h) : a \in Addrs, h \in Hashes}

BranchNode(partial_path, value, children) ==
    [partial_path |-> partial_path, value |-> value, children |-> children]

\* [Option<Child>; MAX_CHILDREN] with the slots of S occupied as f says.
ChildArray(S, f) == [i \in Slots |-> IF i \in S THEN f[i] ELSE NoChild]

\* The branch nodes drawn as inputs: at most MaxOccupied occupied slots.
BranchNodes ==
    {BranchNode(path, value, ChildArray(S, f)) :
        path \in ByteStrings, value \in OptValues,
        <<S, f>> \in UNION {{<<T, g>> : g \in [T -> Children]} :
                              T \in {U \in SUBSET Slots : Cardinality(U) <= MaxOccupied}}}

NoBranch == BranchNode(<<>>, <<>>, ChildArray({}, <<>>))

\* No node is being encoded (the state of the encoding beside the manager).
NodeOff ==
    /\ branch = NoBranch
    /\ stream = <<>>
    /\ node_pc = "off"
    /\ decoded = [res |-> "none", val |-> <<>>]

\* ------------------------------------------------------------------- open
\* NodeStore::new_empty_committed (truncate) / NodeStore::open: the
\* revision the manager starts from.
OpenedRevision(truncate, header, n) ==
    IF truncate THEN Rev(0, None, n) ELSE Rev(header.id, header.hash, n)

\* RevisionManager::new: by_hash seeded when the opened revision has a hash
SeedByHash(r) == IF r.hash # None THEN MapInsert(EmptyMap, r.hash, r) ELSE EmptyMap

\* An entry of the history of tips: the revision's root; ok, whether the
\* parent hash of its proposal was the root hash of the tip it replaced;
\* base, the revision its proposal was created on (0: on a proposal);
\* done, whether its root move completed.
Tip(r, ok, base, done) ==
    [id |-> r.id, hash |-> r.hash, ok |-> ok, base |-> base, done |-> done]

\* Index in chain of the last revision whose root move completed.
Durable == CHOOSE i \in 1..Len(chain) :
              /\ chain[i].done
              /\ \A j \in (i + 1)..Len(chain) : ~chain[j].done

\* RevisionManager::new with the configuration's max_revisions, on a new
\* file (truncate) or on a file whose header records a root with hash h.
ManagerInit(truncate, h, n) ==
        LET opened == OpenedRevision(truncate, DiskRoot(0, h), 1) IN
        /\ max_revisions = n
        /\ historical = <<opened>>
        /\ by_hash = SeedByHash(opened)
        /\ proposals = <<>>
        /\ holders = [a \in Arcs |-> 0]
        /\ pc = "idle"
        /\ frame = NoFrame
        /\ ret = NoRet
        /\ warnings = 0
        /\ disk_root = DiskRoot(opened.id, opened.hash)
        /\ next_id = 1
        /\ crashes = 0
        /\ chain = <<Tip(opened, TRUE, 0, TRUE)>>
        /\ opened_at = 1
        /\ crashed_at = "none"
        /\ io_failed = FALSE

Init ==
    /\ \E truncate \in BOOLEAN, h \in {None, 1}, n \in 0..MaxRevisionsCfg :
          ManagerInit(truncate, h, n)
    /\ NodeOff

\* ------------------------------------------------------- reference counts
\* Mutant: try_unwrap does not count the commit's own current_revision.
try_unwrap_ignores_local(oldest) == holders[oldest.n] = 0

\* Mutant: try_unwrap does not count the references readers hold.
try_unwrap_ignores_readers(oldest) == ~(frame.active /\ frame.cur = oldest.n)

\* Arc::try_unwrap(oldest) after pop_front and by_hash.remove: it succeeds
\* when no reader and no local of the running commit holds the revision.
try_unwrap_ok(oldest) ==
    /\ holders[oldest.n] = 0
    /\ ~(frame.active /\ frame.cur = oldest.n)

\* ----------------------------------------------------------- add_proposal
\* Mutant: the proposal is put in front of the list.
add_proposal_front(ps, p) == <<p>> \o ps

\* RevisionManager::add_proposal: self.proposals.push(proposal)
add_proposal(ps, p) == Append(ps, p)

\* The parents a new proposal can be built on: the current revision (by
\* hash) or a live proposal.
Parents ==
    {CommittedParent(current_revision)}
        \cup {ProposedParent(proposals[i]) : i \in 1..Len(proposals)}

\* The root hashes the state mentions.
UsedHashes ==
    {historical[i].hash : i \in 1..Len(historical)}
        \cup {proposals[i].hash : i \in 1..Len(proposals)}
        \cup {proposals[i].parent.hash : i \in 1..Len(proposals)}
        \cup {chain[i].hash : i \in 1..Len(chain)}
        \cup {disk_root.hash}

\* The root hash of a new proposal: none (an empty trie), a hash the state
\* mentions (the same content again), or a new hash. Hashes are only ever
\* compared for equality, so the new hash is taken to be the least one.
ProposalHashes ==
    {None} \cup {h \in Hashes : h \in UsedHashes \/ \A g \in Hashes \ UsedHashes : h <= g}

\* Db::propose: a frozen proposal is created and handed to add_proposal.
Propose ==
    /\ pc = "idle"
    /\ next_id <= MaxIds
    /\ Len(proposals) < MaxProposals
    /\ \E h \in ProposalHashes, parent \in Parents :
          proposals' = add_proposal(proposals, Proposal(next_id, h, parent))
    /\ next_id' = next_id + 1
    /\ ret' = Ret("add_proposal", "Ok", None, <<>>)
    /\ UNCHANGED <<max_revisions, historical, by_hash, holders, pc, frame, warnings,
                   disk_root, crashes, chain, opened_at, crashed_at, io_failed,
                   nodeVars>>

\* ----------------------------------------------------------------- commit
\* Mutant: the commit check accepts every proposal.
commit_check_any(p) == TRUE

\* Mutant: the commit check compares with the oldest revision, not the tip.
commit_check_oldest(p) == parent_hash_is(p, Head(historical).hash)

\* 1. Commit check: the proposal's parent must be the current revision.
commit_check(p) == parent_hash_is(p, current_revision.hash)

\* commit(proposal), rejected by the commit check: Err(NotLatest).
CommitNotLatest ==
    /\ pc = "idle"
    /\ \E i \in 1..Len(proposals) :
          /\ ~commit_check(proposals[i])
          /\ ret' = Ret("commit", "NotLatest", proposals[i].id, <<>>)
    /\ UNCHANGED <<max_revisions, historical, proposals, by_hash, holders, pc, frame,
                   warnings, disk_root, next_id, crashes, chain, opened_at, crashed_at,
                   io_failed,
                   nodeVars>>

\* commit(proposal), accepted by the commit check: the locals
\* current_revision and committed are set and the reaping loop is entered.
CommitBegin ==
    /\ pc = "idle"
    /\ \E i \in 1..Len(proposals) :
          /\ commit_check(proposals[i])
          /\ Len(chain) < MaxChain
          /\ frame' = [active |-> TRUE, p |-> proposals[i],
                       cur |-> current_revision.n, flushed |-> <<>>]
          /\ ret' = Ret("commit", "running", proposals[i].id, <<>>)
    /\ pc' = "reap"
    /\ UNCHANGED <<max_revisions, historical, proposals, by_hash, holders, warnings,
                   disk_root, next_id, crashes, chain, opened_at, crashed_at,
                   io_failed,
                   nodeVars>>

\* Mutant: the reaping loop starts one revision late.
reap_needed_late == Len(historical) > max_revisions

\* The condition of the reaping loop.
reap_needed == Len(historical) >= max_revisions

\* Mutant: the by-hash entry of the reaped revision is left behind.
RemoveOldest_kept(m, oldest) == m

\* by_hash after `if let Some(oldest_hash) = ... { self.by_hash.remove(..) }`
RemoveOldest(m, oldest) ==
    IF oldest.hash # None THEN MapRemove(m, oldest.hash) ELSE m

\* The commit returns an I/O error: the call is over, its locals are dropped.
ReturnIO ==
    /\ pc' = "idle"
    /\ frame' = NoFrame
    /\ ret' = Ret("commit", "IO", frame.p.id, <<>>)
    /\ warnings' = 0
    /\ io_failed' = TRUE

\* 3. One turn of the reaping loop in which try_unwrap succeeds and
\* reap_deleted returns Ok: the oldest revision is gone.
CommitReap ==
    /\ pc = "reap"
    /\ reap_needed
    /\ Len(historical) > 0
    /\ try_unwrap_ok(Head(historical))
    /\ historical' = Tail(historical)
    /\ by_hash' = RemoveOldest(by_hash, Head(historical))
    /\ UNCHANGED <<max_revisions, proposals, holders, pc, frame, ret, warnings,
                   disk_root, next_id, crashes, chain, opened_at, crashed_at,
                   io_failed,
                   nodeVars>>

\* 3. One turn of the reaping loop in which try_unwrap succeeds and
\* reap_deleted fails: `?` returns the error from commit.
CommitReapFails ==
    /\ pc = "reap"
    /\ reap_needed
    /\ Len(historical) > 0
    /\ try_unwrap_ok(Head(historical))
    /\ historical' = Tail(historical)
    /\ by_hash' = RemoveOldest(by_hash, Head(historical))
    /\ ReturnIO
    /\ UNCHANGED <<max_revisions, proposals, holders, disk_root, next_id, crashes,
                   chain, opened_at, crashed_at,
                   nodeVars>>

\* 3. One turn of the reaping loop in which the oldest revision is still
\* referenced: a warning is logged and the revision is pushed back. The
\* loop has no break: its condition is tested again.
CommitReapBlocked ==
    /\ pc = "reap"
    /\ reap_needed
    /\ Len(historical) > 0
    /\ ~try_unwrap_ok(Head(historical))
    /\ warnings < MaxWarnings
    /\ warnings' = warnings + 1
    /\ historical' = <<Head(historical)>> \o Tail(historical)
    /\ by_hash' = RemoveOldest(by_hash, Head(historical))
    /\ UNCHANGED <<max_revisions, proposals, holders, pc, frame, ret, disk_root,
                   next_id, crashes, chain, opened_at, crashed_at, io_failed,
                   nodeVars>>

\* Mutant: the header is written when the revision is installed, before
\* the free list and the nodes are flushed.
CommitInstall_root_move_first ==
    /\ pc = "reap"
    /\ Len(historical) < max_revisions
    /\ LET committed == as_committed(frame.p, Len(chain) + 1) IN
          /\ historical' = Append(historical, committed)
          /\ by_hash' = IF committed.hash # None
                        THEN MapInsert(by_hash, committed.hash, committed)
                        ELSE by_hash
          /\ chain' = Append(chain, Tip(committed,
                                       frame.p.parent.hash = current_revision.hash,
                                       IF frame.p.parent.kind = "Committed"
                                       THEN frame.p.parent.id ELSE 0,
                                       FALSE))
    /\ disk_root' = flush_header(frame.p)
    /\ pc' = "freelist"
    /\ UNCHANGED <<max_revisions, proposals, holders, frame, ret, warnings, next_id,
                   crashes, opened_at, crashed_at, io_failed,
                   nodeVars>>

\* 4. Set last committed revision, once the loop condition is false.
CommitInstall ==
    /\ pc = "reap"
    /\ ~reap_needed
    /\ LET committed == as_committed(frame.p, Len(chain) + 1) IN
          /\ historical' = Append(historical, committed)
          /\ by_hash' = IF committed.hash # None
                        THEN MapInsert(by_hash, committed.hash, committed)
                        ELSE by_hash
          /\ chain' = Append(chain, Tip(committed,
                                       frame.p.parent.hash = current_revision.hash,
                                       IF frame.p.parent.kind = "Committed"
                                       THEN frame.p.parent.id ELSE 0,
                                       FALSE))
    /\ pc' = "freelist"
    /\ UNCHANGED <<max_revisions, proposals, holders, frame, ret, warnings, disk_root,
                   next_id, crashes, opened_at, crashed_at, io_failed,
                   nodeVars>>

\* Mutant: the node flush is left out.
CommitFlushFreelist_skips_nodes ==
    /\ pc = "freelist"
    /\ frame' = [frame EXCEPT !.flushed = Append(@, "freelist")]
    /\ pc' = "header"
    /\ UNCHANGED <<max_revisions, historical, proposals, by_hash, holders, ret,
                   warnings, disk_root, next_id, crashes, chain, opened_at, crashed_at,
                   io_failed,
                   nodeVars>>

\* 5. Free list flush
CommitFlushFreelist ==
    /\ pc = "freelist"
    /\ frame' = [frame EXCEPT !.flushed = Append(@, "freelist")]
    /\ pc' = "nodes"
    /\ UNCHANGED <<max_revisions, historical, proposals, by_hash, holders, ret,
                   warnings, disk_root, next_id, crashes, chain, opened_at, crashed_at,
                   io_failed,
                   nodeVars>>

\* 6. Node flush
CommitFlushNodes ==
    /\ pc = "nodes"
    /\ frame' = [frame EXCEPT !.flushed = Append(@, "nodes")]
    /\ pc' = "header"
    /\ UNCHANGED <<max_revisions, historical, proposals, by_hash, holders, ret,
                   warnings, disk_root, next_id, crashes, chain, opened_at, crashed_at,
                   io_failed,
                   nodeVars>>

\* 7. Root move
CommitFlushHeader ==
    /\ pc = "header"
    /\ disk_root' = flush_header(frame.p)
    /\ chain' = [chain EXCEPT ![Len(chain)].done = TRUE]
    /\ frame' = [frame EXCEPT !.flushed = Append(@, "header")]
    /\ pc' = "cleanup"
    /\ UNCHANGED <<max_revisions, historical, proposals, by_hash, holders, ret,
                   warnings, next_id, crashes, opened_at, crashed_at, io_failed,
                   nodeVars>>

\* 5-7. flush_freelist, flush_nodes or flush_header fails: `?` returns the
\* error from commit, the installed revision stays.
CommitFlushFails ==
    /\ pc \in {"freelist", "nodes", "header"}
    /\ ReturnIO
    /\ UNCHANGED <<max_revisions, historical, proposals, by_hash, holders, disk_root,
                   next_id, crashes, chain, opened_at, crashed_at,
                   nodeVars>>

\* Mutant: the committed proposal stays in the list.
RetainOthers_all(ps, p) == ps

\* self.proposals.retain(|p| !Arc::ptr_eq(&proposal, p))
RetainOthers(ps, p) == SelectSeq(ps, LAMBDA q : q.id # p.id)

\* for p in self.proposals.iter() { proposal.commit_reparent(p) }
ReparentAll(ps, p, committed) ==
    [i \in 1..Len(ps) |-> commit_reparent(p, committed, ps[i])]

\* 8. Proposal cleanup, and Ok(()).
CommitCleanup ==
    /\ pc = "cleanup"
    /\ proposals' = ReparentAll(RetainOthers(proposals, frame.p), frame.p,
                                as_committed(frame.p, Len(chain)))
    /\ pc' = "idle"
    /\ frame' = NoFrame
    /\ ret' = Ret("commit", "Ok", frame.p.id, <<>>)
    /\ warnings' = 0
    /\ UNCHANGED <<max_revisions, historical, by_hash, holders, disk_root, next_id,
                   crashes, chain, opened_at, crashed_at, io_failed,
                   nodeVars>>

\* ------------------------------------------------------------ read calls
\* Mutant: a hash that is not in by_hash is looked up among the proposals.
revision_or_proposal(h) ==
    IF HasKey(by_hash, h)
    THEN Ret("revision", "Ok", h, <<by_hash[h]>>)
    ELSE IF \E i \in 1..Len(proposals) : proposals[i].hash = h
         THEN LET i == CHOOSE i \in 1..Len(proposals) : proposals[i].hash = h
              IN  Ret("revision", "Ok", h, <<as_committed(proposals[i], 0)>>)
         ELSE Ret("revision", "NotFound", h, <<>>)

\* RevisionManager::revision: by_hash.get(&root_hash).cloned(), or the
\* I/O error of kind NotFound.
revision(h) ==
    IF HasKey(by_hash, h)
    THEN Ret("revision", "Ok", h, <<by_hash[h]>>)
    ELSE Ret("revision", "NotFound", h, <<>>)

\* RevisionManager::root_hash: the root hash of the current revision, or
\* the I/O error of kind NotFound when it has none.
root_hash ==
    IF current_revision.hash # None
    THEN Ret("root_hash", "Ok", None, <<current_revision.hash>>)
    ELSE Ret("root_hash", "NotFound", None, <<>>)

\* RevisionManager::all_hashes
all_hashes == RootHashes(historical) \o RootHashes(proposals)

\* A reader keeps the Arc a call returned.
Keep(r) == [holders EXCEPT ![r.n] = @ + 1]

RECURSIVE SumTo(_, _)
SumTo(f, n) == IF n = 0 THEN 0 ELSE f[n] + SumTo(f, n - 1)
\* Number of Arcs readers hold.
Held == SumTo(holders, MaxChain)

\* revision(h) is called; the reader keeps or drops the Arc it gets.
CallRevision ==
    /\ pc = "idle"
    /\ \E h \in Hashes, keep \in BOOLEAN :
          /\ ret' = revision(h)
          /\ IF keep /\ HasKey(by_hash, h)
             THEN /\ holders[by_hash[h].n] < MaxHolders
                  /\ holders' = Keep(by_hash[h])
             ELSE holders' = holders
    /\ UNCHANGED <<max_revisions, historical, proposals, by_hash, pc, frame, warnings,
                   disk_root, next_id, crashes, chain, opened_at, crashed_at,
                   io_failed,
                   nodeVars>>

\* current_revision() is called by a reader, who keeps the Arc.
CallCurrentRevision ==
    /\ pc = "idle"
    /\ Held < MaxHolders
    /\ holders' = Keep(current_revision)
    /\ ret' = Ret("current_revision", "Ok", None, <<current_revision>>)
    /\ UNCHANGED <<max_revisions, historical, proposals, by_hash, pc, frame, warnings,
                   disk_root, next_id, crashes, chain, opened_at, crashed_at,
                   io_failed,
                   nodeVars>>

\* A reader drops an Arc it holds; readers run beside the manager.
Release ==
    /\ \E a \in Arcs :
          /\ holders[a] > 0
          /\ holders' = [holders EXCEPT ![a] = @ - 1]
    /\ UNCHANGED <<max_revisions, historical, proposals, by_hash, pc, frame, ret,
                   warnings, disk_root, next_id, crashes, chain, opened_at, crashed_at,
                   io_failed,
                   nodeVars>>

\* root_hash() is called.
CallRootHash ==
    /\ pc = "idle"
    /\ ret' = root_hash
    /\ UNCHANGED <<max_revisions, historical, proposals, by_hash, holders, pc, frame,
                   warnings, disk_root, next_id, crashes, chain, opened_at, crashed_at,
                   io_failed,
                   nodeVars>>

\* all_hashes() is called.
CallAllHashes ==
    /\ pc = "idle"
    /\ ret' = Ret("all_hashes", "Ok", None, all_hashes)
    /\ UNCHANGED <<max_revisions, historical, proposals, by_hash, holders, pc, frame,
                   warnings, disk_root, next_id, crashes, chain, opened_at, crashed_at,
                   io_failed,
                   nodeVars>>

\* ------------------------------------------------------- crash and reopen
\* The process is killed at any point and RevisionManager::new opens the
\* file again without truncating it: memory starts from the header's root.
CrashPoint ==
    CASE pc = "idle" -> "idle"
      [] pc = "reap" -> "before_install"
      [] pc = "cleanup" -> "after_root_move"
      [] OTHER -> "before_root_move"

CrashReopen ==
    /\ crashes < MaxCrashes
    /\ crashes' = crashes + 1
    /\ LET opened == OpenedRevision(FALSE, disk_root, Durable) IN
          /\ historical' = <<opened>>
          /\ by_hash' = SeedByHash(opened)
    /\ proposals' = <<>>
    /\ holders' = [a \in Arcs |-> 0]
    /\ pc' = "idle"
    /\ frame' = NoFrame
    /\ ret' = Ret("open", "Ok", None, <<>>)
    /\ warnings' = 0
    /\ chain' = SubSeq(chain, 1, Durable)
    /\ opened_at' = Durable
    /\ crashed_at' = CrashPoint
    /\ io_failed' = FALSE
    /\ UNCHANGED <<max_revisions, disk_root, next_id,
                   nodeVars>>

Next ==
    \/ Propose
    \/ CommitNotLatest
    \/ CommitBegin
    \/ CommitReap
    \/ CommitReapFails
    \/ CommitReapBlocked
    \/ CommitInstall
    \/ CommitFlushFreelist
    \/ CommitFlushNodes
    \/ CommitFlushHeader
    \/ CommitFlushFails
    \/ CommitCleanup
    \/ CallRevision
    \/ CallCurrentRevision
    \/ Release
    \/ CallRootHash
    \/ CallAllHashes
    \/ CrashReopen

Spec == Init /\ [][Next]_vars

\* ------------------------------------------- BranchNode serde (branch.rs)
\* The filter_map over children.iter().enumerate(): the occupied slots from
\* offset on, as (offset as u8, address, hash), in slot order.
RECURSIVE collect_children(_, _)
collect_children(children, offset) ==
    IF offset = MAX_CHILDREN THEN <<>>
    ELSE LET rest == collect_children(children, offset + 1)
             c == children[offset]
         IN  IF c.kind = "AddressWithHash"
             THEN <<(<<offset % 256, c.addr, c.hash>>)>> \o rest
             ELSE rest

\* Whether the filter_map meets Some(Child::Node(_)) and panics.
meets_node(children) == \E i \in Slots : children[i].kind = "Node"

\* The struct SerializedBranchNode read back from the three fields.
SerializedBranchNode(fields) ==
    [partial_path |-> fields[1], value |-> fields[2], children |-> fields[3]]

\* for (offset, addr, hash) in s.children.iter() { children[offset] = Some(..) }
RECURSIVE set_children(_, _)
set_children(children, tuples) ==
    IF tuples = <<>> THEN children
    ELSE set_children(
            [children EXCEPT ![Head(tuples)[1]] =
                AddressWithHash(Head(tuples)[2], Head(tuples)[3])],
            Tail(tuples))

\* Mutant: an empty value is read back as no value.
deserialize_empty_as_none(s) ==
    [res |-> "Ok",
     val |-> <<BranchNode(s.partial_path,
                          IF s.value = <<(<<>>)>> THEN <<>> ELSE s.value,
                          set_children(ChildArray({}, <<>>), s.children))>>]

\* impl Deserialize for BranchNode: indexing children with an offset of
\* MAX_CHILDREN or more panics.
deserialize(s) ==
    IF \E i \in 1..Len(s.children) : s.children[i][1] >= MAX_CHILDREN
    THEN [res |-> "panic", val |-> <<>>]
    ELSE [res |-> "Ok",
          val |-> <<BranchNode(s.partial_path, s.value,
                               set_children(ChildArray({}, <<>>), s.children))>>]

\* A branch node is handed to serialize.
BranchInit ==
    /\ ManagerInit(TRUE, None, 1)
    /\ branch \in BranchNodes
    /\ stream = <<>>
    /\ node_pc = "start"
    /\ decoded = [res |-> "none", val |-> <<>>]

\* state.serialize_field("partial_path", &self.partial_path)?
SerializePath ==
    /\ node_pc = "start"
    /\ stream' = Append(stream, branch.partial_path)
    /\ node_pc' = "path"
    /\ UNCHANGED <<managerVars, branch, decoded>>

\* state.serialize_field("value", &self.value)?
SerializeValue ==
    /\ node_pc = "path"
    /\ stream' = Append(stream, branch.value)
    /\ node_pc' = "value"
    /\ UNCHANGED <<managerVars, branch, decoded>>

\* The children are collected and serialized; state.end().
SerializeChildren ==
    /\ node_pc = "value"
    /\ ~meets_node(branch.children)
    /\ stream' = Append(stream, collect_children(branch.children, 0))
    /\ node_pc' = "end"
    /\ UNCHANGED <<managerVars, branch, decoded>>

\* Collecting the children panics on Some(Child::Node(_)).
SerializePanics ==
    /\ node_pc = "value"
    /\ meets_node(branch.children)
    /\ node_pc' = "panic"
    /\ UNCHANGED <<managerVars, branch, stream, decoded>>

\* The serialized node is handed to deserialize.
DeserializeBranch ==
    /\ node_pc = "end"
    /\ decoded' = deserialize(SerializedBranchNode(stream))
    /\ node_pc' = "decoded"
    /\ UNCHANGED <<managerVars, branch, stream>>

BranchNext ==
    \/ SerializePath
    \/ SerializeValue
    \/ SerializeChildren
    \/ SerializePanics
    \/ DeserializeBranch

BranchSpec == BranchInit /\ [][BranchNext]_vars

\* ----------------------------------------------------------------- claims
\* A step in which commit is called (the manager is idle and the call's
\* first result, NotLatest or "running", is recorded).
CommitCalled == pc = "idle" /\ ret' # ret /\ ret'.op = "commit"

\* C1: commit(p) fails with NotLatest whenever p's parent hash differs from
\* the root hash of the current revision, and then it flushes nothing and
\* leaves historical, by_hash and proposals (and the header) as they were.
C1_NotLatestLeavesState ==
    [][CommitCalled =>
          \A i \in 1..Len(proposals) :
              (proposals[i].id = ret'.arg
                  /\ proposals[i].parent.hash # Last(historical).hash)
              => /\ ret'.res = "NotLatest"
                 /\ pc' = "idle"
                 /\ UNCHANGED <<historical, by_hash, proposals, disk_root, chain>>]_vars

\* A commit was rejected with NotLatest, and the rejected proposal is still
\* listed with a parent hash that is not the tip's.
C1_Witness ==
    /\ ret.op = "commit" /\ ret.res = "NotLatest"
    /\ \E i \in 1..Len(proposals) :
          /\ proposals[i].id = ret.arg
          /\ proposals[i].parent.hash # current_revision.hash
    /\ Len(chain) > 1

\* C2: of two proposals A and B created on the same tip, once commit(A)
\* has succeeded B is rejected and never becomes the current revision, also
\* when A's root hash equals its parent's: no revision in the history of
\* tips was created on a tip that a sibling had already replaced.
C2_SiblingNeverCommits ==
    \A j \in 1..Len(chain) :
        LET b == chain[j].base IN
        ~(/\ b # 0
          /\ b + 1 < j
          /\ chain[b + 1].base = b
          /\ chain[b + 1].done)

\* What the code keeps of the lineage: the tip is always the last revision
\* installed, and every revision installed after a successful commit came
\* from a proposal whose parent hash was the root hash of the tip it
\* replaced, whether its own commit then returned Ok or an I/O error.
TipsChainByHash ==
    /\ Len(historical) > 0
    /\ current_revision.n = Len(chain)
    /\ current_revision.id = Last(chain).id
    /\ current_revision.hash = Last(chain).hash
    /\ \A i \in 1..Len(chain) :
          chain[i].done => \A j \in (i + 1)..Len(chain) : chain[j].ok

\* C3: once commit(p) has succeeded, in every later state between calls
\* the current revision is p's or the tip has advanced only through
\* further successful commits, each of whose parent hash was the root hash
\* of the tip it replaced: every tip after p is the revision of a commit
\* that passed the commit check and completed its root move.
C3_LineageMonotonic ==
    pc = "idle"
    => /\ current_revision.n = Len(chain)
       /\ \A i \in 2..Len(chain) :
             chain[i].done
             => \A j \in (i + 1)..Len(chain) : chain[j].ok /\ chain[j].done

\* C4: |historical| <= max_revisions, unless reaping is blocked by
\* outstanding references, and then |historical| = max_revisions + k, k the
\* number of blocked (and logged) reaps. Stated for max_revisions >= 2,
\* where only a reader's reference can block a reap.
C4_BoundedHistory ==
    max_revisions >= 2
    => IF warnings > 0
       THEN Len(historical) = max_revisions + warnings
       ELSE Len(historical) <= max_revisions

\* What the code keeps instead: for max_revisions >= 1 the history never
\* grows past the bound, since nothing is installed while a reap is blocked.
HistoryWithinBound ==
    max_revisions >= 1 => Len(historical) <= max_revisions

\* The commits since the file was opened, when each of them returned Ok.
SinceOpen == (opened_at + 1)..Len(chain)

\* C5: for max_revisions = N >= 1, after m >= N successful commits with
\* pairwise distinct root hashes, historical holds exactly the N most recent
\* of them, all_hashes lists N committed hashes, and revision(h) fails with
\* NotFound for the root hash h of every earlier commit.
C5_HistoryBound ==
    (/\ pc = "idle"
     /\ ~io_failed
     /\ max_revisions >= 1
     /\ Cardinality(SinceOpen) >= max_revisions
     /\ \A i \in SinceOpen : chain[i].hash # None
     /\ \A i, j \in SinceOpen : i # j => chain[i].hash # chain[j].hash)
    => /\ Len(historical) = max_revisions
       /\ \A k \in 1..max_revisions :
             LET i == Len(chain) - max_revisions + k IN
             /\ historical[k].n = i
             /\ historical[k].id = chain[i].id
             /\ historical[k].hash = chain[i].hash
       /\ Len(RootHashes(historical)) = max_revisions
       /\ \A i \in SinceOpen :
             i <= Len(chain) - max_revisions
             => /\ ~HasKey(by_hash, chain[i].hash)
                /\ revision(chain[i].hash).res = "NotFound"

\* More commits than max_revisions succeeded, with distinct root hashes.
C5_Witness ==
    /\ pc = "idle"
    /\ ~io_failed
    /\ max_revisions >= 2
    /\ Cardinality(SinceOpen) > max_revisions
    /\ \A i \in SinceOpen : chain[i].hash # None
    /\ \A i, j \in SinceOpen : i # j => chain[i].hash # chain[j].hash

\* C6: the reaping loop never blocks the commit: when the oldest revision
\* is still held by another owner it is pushed back, reaping stops and the
\* commit goes on to install p. Stated for max_revisions >= 2, where the
\* other owner is a reader.
C6_BlockedReapGoesOn ==
    (/\ max_revisions >= 2
     /\ pc = "reap"
     /\ warnings > 0
     /\ holders[Head(historical).n] > 0)
    => ENABLED CommitInstall

\* C7: reopening without truncate recovers the root of the last commit
\* whose root move completed: a commit killed before its root move
\* completed is not the tip, one killed after it is.
C7_ReopenRecoversRoot ==
    [][crashes' = crashes + 1 =>
          LET tip == Last(historical')
              d == chain[Durable]
          IN  /\ Len(historical') = 1
              /\ tip.id = d.id /\ tip.hash = d.hash /\ tip.n = Durable
              /\ pc \in {"freelist", "nodes", "header"}
                 => Durable < Len(chain)
              /\ pc \in {"reap", "freelist", "nodes", "header"}
                 => tip.id # frame.p.id
              /\ pc = "cleanup"
                 => /\ tip.id = frame.p.id /\ tip.hash = frame.p.hash
                    /\ Durable = Len(chain)]_vars

\* The file was reopened after a kill between install and root move.
C7_Witness ==
    /\ crashed_at = "before_root_move"
    /\ ret.op = "open"
    /\ Len(chain) > 1

\* C8: root_hash() succeeds with the optional root hash of the current
\* revision: none for an empty trie, the hash otherwise.
C8_RootHashOfEmptyIsNone ==
    (pc = "idle" /\ ret.op = "root_hash")
    => /\ ret.res = "Ok"
       /\ ret.val = IF current_revision.hash = None
                    THEN <<>> ELSE <<current_revision.hash>>

\* A step in which revision(h) is called.
RevisionCalled == pc = "idle" /\ ret' # ret /\ ret'.op = "revision"

\* C9: revision(h) returns a committed revision with root hash h when h is
\* a key of by_hash and fails with NotFound otherwise; it leaves historical,
\* by_hash and proposals alone and never returns a live proposal.
C9_RevisionLookup ==
    [][RevisionCalled =>
          /\ UNCHANGED <<historical, by_hash, proposals>>
          /\ IF HasKey(by_hash, ret'.arg)
             THEN /\ ret'.res = "Ok"
                  /\ Len(ret'.val) = 1
                  /\ ret'.val[1].hash = ret'.arg
                  /\ ret'.val[1].n \in 1..Len(chain)
                  /\ chain[ret'.val[1].n].id = ret'.val[1].id
                  /\ InDeque(ret'.val[1])
             ELSE /\ ret'.res = "NotFound"
                  /\ ret'.val = <<>>]_vars

\* revision(h) failed with NotFound although a live proposal has root hash h.
C9_Witness ==
    /\ ret.op = "revision" /\ ret.res = "NotFound"
    /\ \E i \in 1..Len(proposals) : proposals[i].hash = ret.arg

\* Number of entries with a root hash among the first i of a sequence.
Rank(s, i) == Cardinality({j \in 1..i : s[j].hash # None})

\* A step in which all_hashes() is called.
AllHashesCalled == pc = "idle" /\ ret' # ret /\ ret'.op = "all_hashes"

\* C10: all_hashes() returns the root hashes of the committed revisions,
\* oldest first, then those of the live proposals in the order they were
\* added; revisions without a root hash contribute nothing; no state changes.
C10_AllHashes ==
    [][AllHashesCalled =>
          LET nh == Rank(historical, Len(historical))
              np == Rank(proposals, Len(proposals))
          IN  /\ UNCHANGED <<historical, by_hash, proposals, holders, disk_root>>
              /\ Len(ret'.val) = nh + np
              /\ \A i \in 1..Len(historical) :
                    historical[i].hash # None
                    => ret'.val[Rank(historical, i)] = historical[i].hash
              /\ \A i \in 1..Len(proposals) :
                    proposals[i].hash # None
                    => ret'.val[nh + Rank(proposals, i)] = proposals[i].hash
              /\ \A i, j \in 1..Len(historical) :
                    i < j => historical[i].n < historical[j].n
              /\ \A i, j \in 1..Len(proposals) :
                    i < j => proposals[i].id < proposals[j].id]_vars

\* all_hashes() listed two committed revisions and two proposals, skipping
\* one that has no root hash.
C10_Witness ==
    /\ ret.op = "all_hashes"
    /\ pc = "idle"
    /\ Len(historical) = 2 /\ Len(proposals) = 2
    /\ Len(ret.val) = 3
    /\ \E i \in 1..2 : proposals[i].hash = None

\* C11: a committed revision is reaped only when the manager is its sole
\* owner: every revision a reader holds a reference to is still in
\* historical, whatever commits ran since the reader got it.
C11_HeldNeverReaped ==
    \A a \in Arcs :
        holders[a] > 0 => \E i \in 1..Len(historical) : historical[i].n = a

\* A commit tried to reap the oldest revision while a reader held it, and
\* the revision is back at the front of the deque.
C11_Witness ==
    /\ pc = "reap"
    /\ warnings > 0
    /\ max_revisions >= 2
    /\ holders[Head(historical).n] > 0
    /\ frame.cur # Head(historical).n

\* C12: for every branch node whose occupied slots are all (address, hash)
\* pairs, deserialize(serialize(b)) = b: partial path, value (none kept apart
\* from empty) and all 16 slots; and the serialized children list holds
\* exactly the occupied slots, in ascending index order.
C12_BranchRoundTrip ==
    node_pc = "decoded"
    => /\ decoded.res = "Ok"
       /\ decoded.val = <<branch>>
       /\ LET cs == stream[3] IN
             /\ \A i, j \in 1..Len(cs) : i < j => cs[i][1] < cs[j][1]
             /\ {cs[i][1] : i \in 1..Len(cs)}
                   = {k \in Slots : branch.children[k] # NoChild}
             /\ \A i \in 1..Len(cs) :
                   branch.children[cs[i][1]] = AddressWithHash(cs[i][2], cs[i][3])

\* A branch with an empty value, a partial path and two children, one of
\* them in the last slot, went through serialize and deserialize.
C12_Witness ==
    /\ node_pc = "decoded"
    /\ branch.value = <<(<<>>)>>
    /\ branch.partial_path # <<>>
    /\ branch.children[MAX_CHILDREN - 1] # NoChild
    /\ Cardinality({k \in Slots : branch.children[k] # NoChild}) = 2

\* C13: in every reachable state after open, whatever the configuration
\* and the sequence of add_proposal and commit calls (failed ones included),
\* historical is non-empty, so current_revision() returns a revision.
C13_HistoricalNonEmpty ==
    Len(historical) >= 1

\* A commit failed with an I/O error while reaping, after the oldest of
\* two revisions was popped: one revision is left and it is the tip.
C13_Witness ==
    /\ pc = "idle" /\ ret.op = "commit" /\ ret.res = "IO"
    /\ Len(historical) = 1 /\ current_revision.n = Len(chain)
    /\ Len(chain) >= 3

\* The order of the durable writes of a commit.
FlushOrder == <<"freelist", "nodes", "header">>

\* C14: within every commit the durable writes happen in the order free
\* list flush, node flush, header flush: the on-disk root moves only to the
\* proposal being committed and only once its free list and nodes are
\* flushed, and a flush that fails ends the call before any later flush.
C14_FlushOrder ==
    [][/\ frame'.flushed = SubSeq(FlushOrder, 1, Len(frame'.flushed))
       /\ disk_root' # disk_root
          => /\ frame.flushed = <<"freelist", "nodes">>
             /\ frame'.flushed = FlushOrder
             /\ disk_root' = flush_header(frame.p)
       /\ (frame.active /\ frame'.active /\ frame'.flushed # frame.flushed)
          => /\ Len(frame'.flushed) = Len(frame.flushed) + 1
             /\ frame'.p = frame.p
       /\ (pc \in {"freelist", "nodes", "header"} /\ ret'.res = "IO")
          => /\ disk_root' = disk_root
             /\ ~frame'.active
             /\ pc' = "idle"]_vars

\* A commit completed its three flushes and the header names its proposal.
C14_Witness ==
    /\ pc = "cleanup"
    /\ frame.flushed = FlushOrder
    /\ disk_root = flush_header(frame.p)
    /\ Len(chain) >= 3

\* A step in which commit returns Ok (step 8 is done).
CommitReturnsOk == pc = "cleanup" /\ ret'.op = "commit" /\ ret'.res = "Ok"

\* The identities of a list of proposals, in order.
Ids(ps) == [i \in 1..Len(ps) |-> ps[i].id]

\* C15: after commit(p) succeeds p is no longer in proposals and is listed
\* as a committed revision, every other live proposal is still in proposals
\* (in the same order, with its own root hash), and every remaining proposal
\* whose parent was p has the committed revision's hash as parent hash, so
\* it passes the commit check of the next commit.
C15_ProposalCleanup ==
    [][CommitReturnsOk =>
          LET others == SelectSeq(proposals, LAMBDA q : q.id # frame.p.id)
              tip == Last(historical')
          IN  /\ \A i \in 1..Len(proposals') : proposals'[i].id # frame.p.id
              /\ Ids(proposals') = Ids(others)
              /\ tip.id = frame.p.id /\ tip.hash = frame.p.hash
              /\ tip.hash # None => HasKey(by_hash', tip.hash)
              /\ RootHashes(proposals') = RootHashes(others)
              /\ \A i \in 1..Len(others) :
                    /\ proposals'[i].hash = others[i].hash
                    /\ IF others[i].parent.kind = "Proposed"
                          /\ others[i].parent.id = frame.p.id
                       THEN /\ proposals'[i].parent.kind = "Committed"
                            /\ proposals'[i].parent.hash = tip.hash
                            /\ parent_hash_is(proposals'[i], tip.hash)
                       ELSE proposals'[i] = others[i]]_vars

\* C15 as first stated: after commit(p) succeeds p is no longer in
\* proposals and its root hash is listed by all_hashes only as a committed
\* revision, not among the proposals; checked here for the proposals that
\* were created on p and stay listed.
C15_HashOnlyCommitted ==
    [][CommitReturnsOk =>
          /\ \A i \in 1..Len(proposals') : proposals'[i].id # frame.p.id
          /\ frame.p.hash # None
             => /\ \E i \in 1..Len(historical') : historical'[i].hash = frame.p.hash
                /\ \A i \in 1..Len(proposals) :
                      (/\ proposals[i].parent.kind = "Proposed"
                       /\ proposals[i].parent.id = frame.p.id)
                      => \A k \in 1..Len(proposals') :
                            proposals'[k].id = proposals[i].id
                            => proposals'[k].hash # frame.p.hash]_vars

\* commit(p) returned Ok and a proposal that was created on p is still
\* listed, now with the committed revision as its parent.
C15_Witness ==
    /\ pc = "idle" /\ ret.op = "commit" /\ ret.res = "Ok"
    /\ current_revision.id = ret.arg
    /\ \E i \in 1..Len(proposals) :
          /\ proposals[i].parent = CommittedParent(current_revision)
          /\ proposals[i].hash # current_revision.hash

\* C16: a frozen proposal is abandoned and removed when a competing commit
\* invalidates its lineage: once commit(A) has returned Ok, no proposal
\* whose parent was the replaced tip remains in proposals (so all_hashes()
\* does not list it).
C16_SiblingsAbandoned ==
    (pc = "idle" /\ ret.op = "commit" /\ ret.res = "Ok")
    => \A i \in 1..Len(proposals) :
          ~(/\ proposals[i].parent.kind = "Committed"
            /\ proposals[i].parent.id = current_revision.n - 1)

\* C17: after an I/O failure in steps 5 to 7 the database is read-only: no
\* later commit succeeds, so no revision whose root move completed follows,
\* in the history of tips, one whose root move did not.
C17_ReadOnlyAfterFlushFailure ==
    \A i \in 1..Len(chain) : \A j \in (i + 1)..Len(chain) :
        ~chain[i].done => ~chain[j].done

\* A step in which commit returns an I/O error from the reaping loop.
ReapReturnsIO == pc = "reap" /\ ret'.op = "commit" /\ ret'.res = "IO"

\* C18: when commit fails with an I/O error before step 4 (while reaping),
\* the revision is not installed: the current revision is the one from
\* before the call, the proposal's revision is neither in historical nor in
\* by_hash, and the proposal is still in proposals.
C18_ReapFailureInstallsNothing ==
    [][ReapReturnsIO =>
          /\ Last(historical').n = frame.cur
          /\ Last(historical') = Last(historical)
          /\ \A i \in 1..Len(historical') : historical'[i].id # frame.p.id
          /\ \A h \in DOMAIN by_hash' : by_hash'[h].id # frame.p.id
          /\ \E i \in 1..Len(proposals') : proposals'[i] = frame.p
          /\ proposals' = proposals
          /\ UNCHANGED <<disk_root, chain>>]_vars

\* C19: in every commit that passes the commit check the proposal's delete
\* list is written to the file (step 2) before a revision is reaped and
\* before the new revision is installed: once the revision is installed,
\* the first durable write of the commit was the delete list.
C19_DeleteListPersistedFirst ==
    (frame.active /\ pc \in {"freelist", "nodes", "header", "cleanup"})
    => /\ frame.flushed # <<>>
       /\ frame.flushed[1] = "delete_list"

\* C21: serializing a branch that holds a Child::Node in one of its slots
\* is aborted before anything is written: when the call panics the
\* serializer has been given no field.
C21_NodeChildAbortsBeforeWrite ==
    node_pc = "panic" => stream = <<>>

\* C22: between calls, and with no commit failed since open, the keys of by_hash are exactly the root hashes of
\* the revisions in historical, so revision(h) finds every revision of
\* historical that has a root hash h, also after the older of two revisions
\* with the same root hash was reaped and after a blocked reap.
C22_IndexAgreesWithHistory ==
    (pc = "idle" /\ ~io_failed)
    => /\ DOMAIN by_hash
             = {historical[i].hash : i \in 1..Len(historical)} \ {None}
       /\ \A i \in 1..Len(historical) :
             historical[i].hash # None => revision(historical[i].hash).res = "Ok"

====
